---- MODULE Spec2Model ----
(***************************************************************************)
(* Model of the passive data socket of src/socket.go: newPassiveSocket,    *)
(* GoListenAndServe with its accept goroutine, waitForOpenSocket, Read,    *)
(* Write and Close, run by several calling goroutines.                     *)
(*                                                                         *)
(* Strings are sequences of one-character strings, so that the address     *)
(* formatting and parsing of GoListenAndServe is computed, not assumed.    *)
(* A nil-interface method call panics; the panic ends the call that made   *)
(* it (pc = "panicked"), the other goroutines keep running.                *)
(***************************************************************************)
EXTENDS Integers, Sequences, FiniteSets, TLC

\* ---------------------------------------------------------------- bounds
NumCallers == 2
MaxCalls == 3

\* ------------------------------------------------------------- constants
MaxTCPPort == 65535

Nil == "nil"
Callers == 1..NumCallers
ReqPorts == {-1, 0, 21, 65536}
EphemeralPorts == {32768, 60999}
TLSParams == {Nil, "cfg"}
AddrHosts == {<<"[", ":", ":", "]">>, <<"0", ".", "0", ".", "0", ".", "0">>}
Ops == {"Read", "Write", "Close"}

\* ------------------------------------------------------- string helpers
Digits == <<"0", "1", "2", "3", "4", "5", "6", "7", "8", "9">>

DigitVal(c) == (CHOOSE i \in 1..10 : Digits[i] = c) - 1

IsDigit(c) == \E i \in 1..10 : Digits[i] = c

RECURSIVE ItoaNat(_)
ItoaNat(n) == IF n < 10 THEN <<Digits[n + 1]>>
              ELSE ItoaNat(n \div 10) \o <<Digits[(n % 10) + 1]>>

\* strconv.Itoa
Itoa(n) == IF n < 0 THEN <<"-">> \o ItoaNat(0 - n) ELSE ItoaNat(n)

RECURSIVE AtoiNat(_, _)
AtoiNat(s, acc) == IF s = <<>> THEN acc
                   ELSE AtoiNat(Tail(s), acc * 10 + DigitVal(Head(s)))

\* strconv.Atoi: [ok, val]
Atoi(s) ==
    LET neg  == s # <<>> /\ Head(s) = "-"
        body == IF s # <<>> /\ Head(s) \in {"-", "+"} THEN Tail(s) ELSE s
    IN IF body = <<>> \/ \E i \in 1..Len(body) : ~IsDigit(body[i])
       THEN [ok |-> FALSE, val |-> 0]
       ELSE [ok |-> TRUE,
             val |-> IF neg THEN 0 - AtoiNat(body, 0) ELSE AtoiNat(body, 0)]

RECURSIVE SplitAcc(_, _, _)
SplitAcc(s, sep, cur) ==
    IF s = <<>> THEN <<cur>>
    ELSE IF Head(s) = sep THEN <<cur>> \o SplitAcc(Tail(s), sep, <<>>)
    ELSE SplitAcc(Tail(s), sep, Append(cur, Head(s)))

\* strings.Split(s, sep) for a one-character separator
Split(s, sep) == SplitAcc(s, sep, <<>>)

\* net.JoinHostPort(host, port); host holds no colon here
JoinHostPort(host, port) == host \o <<":">> \o port

\* net.ResolveTCPAddr("tcp", hostport): [ok, port]
ResolveTCPAddr(hostport) ==
    LET parts == Split(hostport, ":")
        p     == Atoi(parts[Len(parts)])
    IN IF Len(parts) < 2 \/ ~p.ok \/ p.val < 0 \/ p.val > MaxTCPPort
       THEN [ok |-> FALSE, port |-> 0]
       ELSE [ok |-> TRUE, port |-> p.val]

\* ----------------------------------------------------------------- state
VARIABLES
    reqPort,      \* newPassiveSocket argument port
    tlsParam,     \* newPassiveSocket argument tlsConfing
    ctor,         \* position of newPassiveSocket / GoListenAndServe
    ctorRet,      \* what newPassiveSocket returned: Nil, "socket" or "error"
    laddr,        \* local laddr of GoListenAndServe (the resolved port)
    sockPort,     \* socket.port
    sockTls,      \* socket.tlsConfing
    conn,         \* socket.conn
    err,          \* socket.err
    lock,         \* socket.lock: Unlocked, ByAccept or ByCaller(r)
    listener,     \* the listening socket: "none", "open", "closed"
    listenerTls,  \* the listener variable is the tls.NewListener wrapper
    boundPort,    \* port the operating system bound the listener to
    osPort,       \* the port the operating system hands out for port 0
    acc,          \* position of the accept goroutine
    accConn,      \* local conn of the accept goroutine
    accErr,       \* local err of the accept goroutine
    acceptCalls,  \* number of listener.Accept() calls made
    connTls,      \* the accepted connection is TLS-wrapped
    connOpen,     \* the accepted connection is open
    pc,           \* position of each calling goroutine
    issued,       \* number of Read/Write/Close calls issued so far
    waitRet,      \* value waitForOpenSocket returned to each caller
    ret,          \* result of each caller's last finished call
    waiter,       \* a caller whose Read/Write found the gate held by the accept goroutine, or 0
    outcomes,     \* results of all finished Read/Write calls
    log,          \* logger.Print calls made
    aHost,        \* newActiveSocket argument remote
    aPort,        \* newActiveSocket argument port
    aSid,         \* newActiveSocket argument sessionID
    aPc,          \* position of newActiveSocket
    aRet,         \* what newActiveSocket returned: Nil, "socket" or "error"
    aConn,        \* socket.conn of the active socket
    aSockHost,    \* socket.host of the active socket
    aSockPort,    \* socket.port of the active socket
    aResolves,    \* number of net.ResolveTCPAddr calls of newActiveSocket
    aDials,       \* number of net.DialTCP calls
    aLog          \* logger.Print calls of newActiveSocket

vars == <<reqPort, tlsParam, ctor, ctorRet, laddr, sockPort, sockTls, conn, err,
          lock, listener, listenerTls, boundPort, osPort, acc, accConn, accErr,
          acceptCalls, connTls, connOpen, pc, issued, waitRet, ret, waiter,
          outcomes, log, aHost, aPort, aSid, aPc, aRet, aConn, aSockHost,
          aSockPort, aResolves, aDials, aLog>>

passiveVars == <<reqPort, tlsParam, ctor, ctorRet, laddr, sockPort, sockTls, conn,
                 err, lock, listener, listenerTls, boundPort, osPort, acc, accConn,
                 accErr, acceptCalls, connTls, connOpen, pc, issued, waitRet, ret,
                 waiter, outcomes, log>>
activeVars == <<aHost, aPort, aSid, aPc, aRet, aConn, aSockHost, aSockPort,
                aResolves, aDials, aLog>>

ctorVars == <<ctor, ctorRet, laddr, sockPort, sockTls, listenerTls, boundPort,
              log>>
paramVars == <<reqPort, tlsParam, osPort>>
callerVars == <<pc, issued, waitRet, ret, waiter, outcomes>>
accVars == <<acc, accConn, accErr, acceptCalls, connTls>>

\* values of socket.lock (line 94): free, or who holds it
Unlocked == <<>>
ByAccept == <<0>>
ByCaller(r) == <<r>>

NoRet == [kind |-> "none", n |-> 0, conn |-> Nil, err |-> Nil, failed |-> FALSE]

\* State after new(ftpPassiveSocket) and the assignments of newPassiveSocket
Init ==
    /\ reqPort \in ReqPorts
    /\ tlsParam \in TLSParams
    /\ osPort \in EphemeralPorts
    /\ ctor = "resolve"
    /\ ctorRet = Nil
    /\ laddr = 0
    /\ sockPort = reqPort
    /\ sockTls = Nil
    /\ conn = Nil
    /\ err = Nil
    /\ lock = Unlocked
    /\ listener = "none"
    /\ listenerTls = FALSE
    /\ boundPort = 0
    /\ acc = "none"
    /\ accConn = Nil
    /\ accErr = Nil
    /\ acceptCalls = 0
    /\ connTls = FALSE
    /\ connOpen = FALSE
    /\ pc = [r \in Callers |-> "idle"]
    /\ issued = 0
    /\ waitRet = [r \in Callers |-> Nil]
    /\ ret = [r \in Callers |-> NoRet]
    /\ waiter = 0
    /\ outcomes = {}
    /\ log = <<>>
    /\ aHost = <<>>
    /\ aPort = 0
    /\ aSid = Nil
    /\ aPc = "none"
    /\ aRet = Nil
    /\ aConn = Nil
    /\ aSockHost = <<>>
    /\ aSockPort = 0
    /\ aResolves = 0
    /\ aDials = 0
    /\ aLog = <<>>

\* --------------------------------------- newPassiveSocket, GoListenAndServe
\* logger.Print(sessionID, message)
LogLine(msg) == Append(log, [sid |-> "sessionID", msg |-> msg])

\* line 155-156: listener.Addr().String() is "<ip>:<port>"
AddrString(h, p) == JoinHostPort(h, Itoa(p))

\* lines 156-157: the text after the last colon of the listener address
PortFromAddr(s) == Atoi(Split(s, ":")[Len(Split(s, ":"))])

\* line 164: the listener is wrapped when socket.tlsConfing is set
WrapsListener(cfg) == cfg # Nil

\* lines 142-146: resolve ":<port>"
Resolve ==
    /\ ctor = "resolve"
    /\ LET r == ResolveTCPAddr(JoinHostPort(<<>>, Itoa(sockPort)))
       IN IF r.ok
          THEN /\ laddr' = r.port
               /\ ctor' = "listen"
               /\ UNCHANGED <<ctorRet, log>>
          ELSE /\ log' = LogLine("resolve")
               /\ ctor' = "failed"
               /\ ctorRet' = "error"
               /\ UNCHANGED laddr
    /\ UNCHANGED <<activeVars, paramVars, sockPort, sockTls, conn, err, lock, listener,
                   listenerTls, boundPort, accVars, connOpen, callerVars>>

\* line 149: net.ListenTCP binds; port 0 asks for an ephemeral port
ListenOk ==
    /\ ctor = "listen"
    /\ boundPort' = IF laddr = 0 THEN osPort ELSE laddr
    /\ listener' = "open"
    /\ ctor' = "addr"
    /\ UNCHANGED <<activeVars, paramVars, ctorRet, laddr, sockPort, sockTls, conn, err, lock,
                   listenerTls, accVars, connOpen, callerVars, log>>

\* ListenFail that goes on to the go statement instead of returning
ListenFail_Spawns ==
    /\ ctor = "listen"
    /\ log' = LogLine("listen")
    /\ ctor' = "failed"
    /\ ctorRet' = "error"
    /\ acc' = "spawned"
    /\ UNCHANGED <<activeVars, paramVars, laddr, sockPort, sockTls, conn, err, lock, listener,
                   listenerTls, boundPort, accConn, accErr, acceptCalls, connTls,
                   connOpen, callerVars>>

\* lines 150-153: net.ListenTCP fails (the port is taken)
ListenFail ==
    /\ ctor = "listen"
    /\ log' = LogLine("listen")
    /\ ctor' = "failed"
    /\ ctorRet' = "error"
    /\ UNCHANGED <<activeVars, paramVars, laddr, sockPort, sockTls, conn, err, lock, listener,
                   listenerTls, boundPort, accVars, connOpen, callerVars>>

\* ReadBackPort without the assignment socket.port = port
ReadBackPort_NoAssign ==
    /\ ctor = "addr"
    /\ \E h \in AddrHosts :
          LET p == PortFromAddr(AddrString(h, boundPort))
          IN IF p.ok
             THEN /\ ctor' = "tls"
                  /\ UNCHANGED <<ctorRet, log>>
             ELSE /\ log' = LogLine("atoi")
                  /\ ctor' = "failed"
                  /\ ctorRet' = "error"
    /\ UNCHANGED <<activeVars, paramVars, laddr, sockPort, sockTls, conn, err, lock, listener,
                   listenerTls, boundPort, accVars, connOpen, callerVars>>

\* lines 155-163: read the bound port back from the listener address
ReadBackPort ==
    /\ ctor = "addr"
    /\ \E h \in AddrHosts :
          LET p == PortFromAddr(AddrString(h, boundPort))
          IN IF p.ok
             THEN /\ sockPort' = p.val
                  /\ ctor' = "tls"
                  /\ UNCHANGED <<ctorRet, log>>
             ELSE /\ log' = LogLine("atoi")
                  /\ ctor' = "failed"
                  /\ ctorRet' = "error"
                  /\ UNCHANGED sockPort
    /\ UNCHANGED <<activeVars, paramVars, laddr, sockTls, conn, err, lock, listener,
                   listenerTls, boundPort, accVars, connOpen, callerVars>>

\* lines 164-166: wrap the listener when socket.tlsConfing is set
WrapTLS ==
    /\ ctor = "tls"
    /\ listenerTls' = WrapsListener(sockTls)
    /\ ctor' = "spawn"
    /\ UNCHANGED <<activeVars, paramVars, ctorRet, laddr, sockPort, sockTls, conn, err, lock,
                   listener, boundPort, accVars, connOpen, callerVars, log>>

\* line 168: the go statement starts the accept goroutine
Spawn ==
    /\ ctor = "spawn"
    /\ acc' = "spawned"
    /\ ctor' = "return"
    /\ UNCHANGED <<activeVars, paramVars, ctorRet, laddr, sockPort, sockTls, conn, err, lock,
                   listener, listenerTls, boundPort, accConn, accErr,
                   acceptCalls, connTls, connOpen, callerVars, log>>

\* lines 180, 109: GoListenAndServe returns nil, newPassiveSocket the socket
Return ==
    /\ ctor = "return"
    /\ ctor' = "done"
    /\ ctorRet' = "socket"
    /\ UNCHANGED <<activeVars, paramVars, laddr, sockPort, sockTls, conn, err, lock, listener,
                   listenerTls, boundPort, accVars, connOpen, callerVars, log>>

\* ----------------------------------------------------- the accept goroutine
\* AccLock without socket.lock.Lock()
AccLock_NoLock ==
    /\ acc = "spawned"
    /\ acc' = "accepting"
    /\ UNCHANGED <<activeVars, paramVars, ctorVars, conn, err, lock, listener, accConn, accErr,
                   acceptCalls, connTls, connOpen, callerVars>>

\* line 169: socket.lock.Lock()
AccLock ==
    /\ acc = "spawned"
    /\ lock = Unlocked
    /\ lock' = ByAccept
    /\ acc' = "accepting"
    /\ UNCHANGED <<activeVars, paramVars, ctorVars, conn, err, listener, accConn, accErr,
                   acceptCalls, connTls, connOpen, callerVars>>

\* the connection the n-th listener.Accept() call returns
ConnName(n) == IF n = 1 THEN "c1" ELSE "c2"

\* line 172: listener.Accept() returns a client's connection
AcceptConn ==
    /\ acc = "accepting"
    /\ listener = "open"
    /\ accConn' = ConnName(acceptCalls + 1)
    /\ accErr' = Nil
    /\ connTls' = listenerTls
    /\ connOpen' = TRUE
    /\ acceptCalls' = acceptCalls + 1
    /\ acc' = "accepted"
    /\ UNCHANGED <<activeVars, paramVars, ctorVars, conn, err, lock, listener, callerVars>>

\* line 172: listener.Accept() fails
AcceptErr ==
    /\ acc = "accepting"
    /\ accErr' = IF listener = "closed" THEN "eclosed" ELSE "etransport"
    /\ accConn' = Nil
    /\ acceptCalls' = acceptCalls + 1
    /\ acc' = "accepted"
    /\ UNCHANGED <<activeVars, paramVars, ctorVars, conn, err, lock, listener, connTls,
                   connOpen, callerVars>>

\* AccRecord without the return of line 175
AccRecord_NoReturn ==
    /\ acc = "accepted"
    /\ err' = Nil
    /\ conn' = accConn
    /\ acc' = "unlock"
    /\ UNCHANGED <<activeVars, paramVars, ctorVars, lock, listener, accConn, accErr,
                   acceptCalls, connTls, connOpen, callerVars>>

\* lines 173-178: record the error, or clear it and record the connection
AccRecord ==
    /\ acc = "accepted"
    /\ IF accErr # Nil
       THEN /\ err' = accErr
            /\ UNCHANGED conn
       ELSE /\ err' = Nil
            /\ conn' = accConn
    /\ acc' = "unlock"
    /\ UNCHANGED <<activeVars, paramVars, ctorVars, lock, listener, accConn, accErr,
                   acceptCalls, connTls, connOpen, callerVars>>

\* AccUnlock without the deferred Unlock
AccUnlock_NoUnlock ==
    /\ acc = "unlock"
    /\ acc' = "done"
    /\ UNCHANGED <<activeVars, paramVars, ctorVars, conn, err, lock, listener, accConn, accErr,
                   acceptCalls, connTls, connOpen, callerVars>>

\* line 170: the deferred socket.lock.Unlock()
AccUnlock ==
    /\ acc = "unlock"
    /\ lock' = Unlocked
    /\ acc' = "done"
    /\ UNCHANGED <<activeVars, paramVars, ctorVars, conn, err, listener, accConn, accErr,
                   acceptCalls, connTls, connOpen, callerVars>>

\* An external actor closes the listening port
EnvCloseListener ==
    /\ listener = "open"
    /\ listener' = "closed"
    /\ UNCHANGED <<activeVars, paramVars, ctorVars, conn, err, lock, accVars, connOpen,
                   callerVars>>

\* ------------------------------------------------- Read, Write and Close
\* lines 186-189: what waitForOpenSocket returns, read with the lock held
WaitResult(c, e) == IF c # Nil THEN Nil ELSE e

\* what a finished Read/Write came to: delegated to a connection, the
\* recorded error, or a panic
Outcome(res) == [kind |-> res.kind, conn |-> res.conn,
                 err |-> IF res.kind = "err" THEN res.err ELSE Nil]

\* A caller that holds the socket calls Read, Write or Close
Issue(r) ==
    /\ ctorRet = "socket"
    /\ pc[r] = "idle"
    /\ issued < MaxCalls
    /\ \E o \in Ops :
          /\ pc' = [pc EXCEPT ![r] = IF o = "Close" THEN "close" ELSE "lock"]
          /\ waiter' = IF waiter = 0 /\ o # "Close" /\ lock = ByAccept THEN r
                        ELSE IF waiter = r THEN 0
                        ELSE waiter
    /\ issued' = issued + 1
    /\ waitRet' = [waitRet EXCEPT ![r] = Nil]
    /\ ret' = [ret EXCEPT ![r] = NoRet]
    /\ UNCHANGED <<activeVars, paramVars, ctorVars, conn, err, lock, listener, accVars,
                   connOpen, outcomes>>

\* line 184: socket.lock.Lock() blocks while the lock is held
WaitLock(r) ==
    /\ pc[r] = "lock"
    /\ lock = Unlocked
    /\ lock' = ByCaller(r)
    /\ pc' = [pc EXCEPT ![r] = "check"]
    /\ UNCHANGED <<activeVars, paramVars, ctorVars, conn, err, listener, accVars, connOpen,
                   issued, waitRet, ret, waiter, outcomes>>

\* WaitCheck whose error return leaves without Unlock
WaitCheck_KeepsLockOnError(r) ==
    /\ pc[r] = "check"
    /\ waitRet' = [waitRet EXCEPT ![r] = WaitResult(conn, err)]
    /\ lock' = IF WaitResult(conn, err) # Nil THEN lock ELSE Unlocked
    /\ pc' = [pc EXCEPT ![r] = "afterwait"]
    /\ UNCHANGED <<activeVars, paramVars, ctorVars, conn, err, listener, accVars, connOpen,
                   issued, ret, waiter, outcomes>>

\* lines 185-189: pick the result, the deferred Unlock runs on return
WaitCheck(r) ==
    /\ pc[r] = "check"
    /\ waitRet' = [waitRet EXCEPT ![r] = WaitResult(conn, err)]
    /\ lock' = Unlocked
    /\ pc' = [pc EXCEPT ![r] = "afterwait"]
    /\ UNCHANGED <<activeVars, paramVars, ctorVars, conn, err, listener, accVars, connOpen,
                   issued, ret, waiter, outcomes>>

\* lines 121-123, 128-130: the wait returned an error: return 0, err
ReturnErr(r) ==
    /\ pc[r] = "afterwait"
    /\ waitRet[r] # Nil
    /\ LET res == [kind |-> "err", n |-> 0, conn |-> Nil, err |-> waitRet[r],
                   failed |-> err # Nil]
       IN /\ ret' = [ret EXCEPT ![r] = res]
          /\ outcomes' = outcomes \cup {Outcome(res)}
    /\ pc' = [pc EXCEPT ![r] = "idle"]
    /\ UNCHANGED <<activeVars, paramVars, ctorVars, conn, err, lock, listener, accVars,
                   connOpen, issued, waitRet, waiter>>

\* lines 124, 131: socket.conn.Read(p) / socket.conn.Write(p) on a connection
Delegate(r) ==
    /\ pc[r] = "afterwait"
    /\ waitRet[r] = Nil
    /\ conn # Nil
    /\ LET res == [kind |-> "io", n |-> IF connOpen THEN 1 ELSE 0, conn |-> conn,
                   err |-> IF connOpen THEN Nil ELSE "econnclosed",
                   failed |-> err # Nil]
       IN /\ ret' = [ret EXCEPT ![r] = res]
          /\ outcomes' = outcomes \cup {Outcome(res)}
    /\ pc' = [pc EXCEPT ![r] = "idle"]
    /\ UNCHANGED <<activeVars, paramVars, ctorVars, conn, err, lock, listener, accVars,
                   connOpen, issued, waitRet, waiter>>

\* lines 124, 131: the method call on a nil socket.conn panics
NilPanic(r) ==
    /\ pc[r] = "afterwait"
    /\ waitRet[r] = Nil
    /\ conn = Nil
    /\ LET res == [kind |-> "panic", n |-> 0, conn |-> Nil, err |-> Nil,
                   failed |-> err # Nil]
       IN /\ ret' = [ret EXCEPT ![r] = res]
          /\ outcomes' = outcomes \cup {Outcome(res)}
    /\ pc' = [pc EXCEPT ![r] = "panicked"]
    /\ UNCHANGED <<activeVars, paramVars, ctorVars, conn, err, lock, listener, accVars,
                   connOpen, issued, waitRet, waiter>>

\* CloseNone that also closes the listening socket
CloseNone_ClosesListener(r) ==
    /\ pc[r] = "close"
    /\ conn = Nil
    /\ ret' = [ret EXCEPT ![r] = [kind |-> "close", n |-> 0, conn |-> Nil,
                                  err |-> Nil, failed |-> err # Nil]]
    /\ pc' = [pc EXCEPT ![r] = "idle"]
    /\ listener' = IF listener = "open" THEN "closed" ELSE listener
    /\ UNCHANGED <<activeVars, paramVars, ctorVars, conn, err, lock, accVars,
                   connOpen, issued, waitRet, waiter, outcomes>>

\* lines 135, 138: Close with no connection returns nil
CloseNone(r) ==
    /\ pc[r] = "close"
    /\ conn = Nil
    /\ ret' = [ret EXCEPT ![r] = [kind |-> "close", n |-> 0, conn |-> Nil,
                                  err |-> Nil, failed |-> err # Nil]]
    /\ pc' = [pc EXCEPT ![r] = "idle"]
    /\ UNCHANGED <<activeVars, paramVars, ctorVars, conn, err, lock, listener, accVars,
                   connOpen, issued, waitRet, waiter, outcomes>>

\* line 135: Close finds a connection
CloseFound(r) ==
    /\ pc[r] = "close"
    /\ conn # Nil
    /\ pc' = [pc EXCEPT ![r] = "closing"]
    /\ UNCHANGED <<activeVars, paramVars, ctorVars, conn, err, lock, listener, accVars,
                   connOpen, issued, waitRet, ret, waiter, outcomes>>

\* CloseConn that also sets socket.conn = nil
CloseConn_ClearsSlot(r) ==
    /\ pc[r] = "closing"
    /\ ret' = [ret EXCEPT ![r] = [kind |-> "close", n |-> 0, conn |-> conn,
                                  err |-> IF connOpen THEN Nil ELSE "econnclosed",
                                  failed |-> err # Nil]]
    /\ connOpen' = FALSE
    /\ conn' = Nil
    /\ pc' = [pc EXCEPT ![r] = "idle"]
    /\ UNCHANGED <<activeVars, paramVars, ctorVars, err, lock, listener, accVars,
                   issued, waitRet, waiter, outcomes>>

\* line 136: return socket.conn.Close()
CloseConn(r) ==
    /\ pc[r] = "closing"
    /\ ret' = [ret EXCEPT ![r] = [kind |-> "close", n |-> 0, conn |-> conn,
                                  err |-> IF connOpen THEN Nil ELSE "econnclosed",
                                  failed |-> err # Nil]]
    /\ connOpen' = FALSE
    /\ pc' = [pc EXCEPT ![r] = "idle"]
    /\ UNCHANGED <<activeVars, paramVars, ctorVars, conn, err, lock, listener, accVars,
                   issued, waitRet, waiter, outcomes>>

\* ---------------------------------------------------------- specification
Next ==
    \/ Resolve
    \/ ListenOk
    \/ ListenFail
    \/ ReadBackPort
    \/ WrapTLS
    \/ Spawn
    \/ Return
    \/ AccLock
    \/ AcceptConn
    \/ AcceptErr
    \/ AccRecord
    \/ AccUnlock
    \/ EnvCloseListener
    \/ \E r \in Callers : Issue(r)
    \/ \E r \in Callers : WaitLock(r)
    \/ \E r \in Callers : WaitCheck(r)
    \/ \E r \in Callers : ReturnErr(r)
    \/ \E r \in Callers : Delegate(r)
    \/ \E r \in Callers : NilPanic(r)
    \/ \E r \in Callers : CloseNone(r)
    \/ \E r \in Callers : CloseFound(r)
    \/ \E r \in Callers : CloseConn(r)

Spec == Init /\ [][Next]_vars

\* The goroutines that can run keep running; sync.Mutex hands the lock to a
\* goroutine that has waited for it (starvation mode), hence SF for Lock.
\* No client is obliged to connect and no caller to issue a call.
Fairness ==
    /\ WF_vars(AccLock)
    /\ WF_vars(AccRecord)
    /\ WF_vars(AccUnlock)
    /\ \A r \in Callers :
          /\ SF_vars(WaitLock(r))
          /\ WF_vars(WaitCheck(r))
          /\ WF_vars(ReturnErr(r))
          /\ WF_vars(Delegate(r))
          /\ WF_vars(NilPanic(r))
          /\ WF_vars(CloseNone(r))
          /\ WF_vars(CloseFound(r))
          /\ WF_vars(CloseConn(r))

\* The liveness claims are about the goroutines, not about the constructor's
\* arguments: one successful and one failing construction.
FairInit ==
    /\ Init
    /\ reqPort \in {0, -1}
    /\ tlsParam = "cfg"
    /\ osPort = 32768

FairSpec == FairInit /\ [][Next]_vars /\ Fairness

\* ------------------------------------------------------ newActiveSocket
RemoteHosts == {<<"1", "0", ".", "0", ".", "0", ".", "1">>, <<"f", "t", "p">>,
                <<"n", "o", "n", "e">>}
ActivePorts == {-1, 0, 20, 2020, 65535, 65536}
SessionIDs == {"s1", "s2"}

\* an IPv4 literal needs no lookup
IsIPLiteral(h) == \A i \in 1..Len(h) : IsDigit(h[i]) \/ h[i] = "."

\* logger.Print(sessionID, message) of newActiveSocket
ActiveLogLine(msg) == Append(aLog, [sid |-> aSid, msg |-> msg])

\* newActiveSocket is called with a remote host, a port and a session
ActiveInit ==
    /\ Init
    /\ reqPort = 0
    /\ tlsParam = Nil
    /\ osPort = 32768

\* lines 39-42: build connectTo and log the attempt
ActiveCall ==
    /\ aPc = "none"
    /\ \E h \in RemoteHosts, p \in ActivePorts, sid \in SessionIDs :
          /\ aHost' = h
          /\ aPort' = p
          /\ aSid' = sid
          /\ aLog' = Append(aLog, [sid |-> sid, msg |-> "opening"])
    /\ aPc' = "resolve"
    /\ UNCHANGED <<passiveVars, aRet, aConn, aSockHost, aSockPort, aResolves, aDials>>

\* line 44: net.ResolveTCPAddr succeeds
ActiveResolveOk ==
    /\ aPc = "resolve"
    /\ ResolveTCPAddr(JoinHostPort(aHost, Itoa(aPort))).ok
    /\ aResolves' = aResolves + 1
    /\ aPc' = "dial"
    /\ UNCHANGED <<passiveVars, aHost, aPort, aSid, aRet, aConn, aSockHost,
                   aSockPort, aDials, aLog>>

\* lines 44-49: net.ResolveTCPAddr fails: bad port, or the name lookup fails
ActiveResolveFail ==
    /\ aPc = "resolve"
    /\ ~ResolveTCPAddr(JoinHostPort(aHost, Itoa(aPort))).ok \/ ~IsIPLiteral(aHost)
    /\ aResolves' = aResolves + 1
    /\ aLog' = ActiveLogLine("resolve")
    /\ aRet' = "error"
    /\ aPc' = "failed"
    /\ UNCHANGED <<passiveVars, aHost, aPort, aSid, aConn, aSockHost, aSockPort,
                   aDials>>

\* lines 51, 58-64: net.DialTCP connects; the socket is filled in and returned
ActiveDialOk ==
    /\ aPc = "dial"
    /\ aDials' = aDials + 1
    /\ aConn' = "tcpConn"
    /\ aSockHost' = aHost
    /\ aSockPort' = aPort
    /\ aRet' = "socket"
    /\ aPc' = "done"
    /\ UNCHANGED <<passiveVars, aHost, aPort, aSid, aResolves, aLog>>

\* ActiveDialFail that dials a second time before it gives up
ActiveDialFail_Retries ==
    /\ aPc = "dial"
    /\ aDials' = aDials + 1
    /\ aLog' = ActiveLogLine("dial")
    /\ IF aDials = 0
       THEN aPc' = "dial" /\ UNCHANGED aRet
       ELSE aPc' = "failed" /\ aRet' = "error"
    /\ UNCHANGED <<passiveVars, aHost, aPort, aSid, aConn, aSockHost, aSockPort,
                   aResolves>>

\* lines 51-56: net.DialTCP fails
ActiveDialFail ==
    /\ aPc = "dial"
    /\ aDials' = aDials + 1
    /\ aLog' = ActiveLogLine("dial")
    /\ aRet' = "error"
    /\ aPc' = "failed"
    /\ UNCHANGED <<passiveVars, aHost, aPort, aSid, aConn, aSockHost, aSockPort,
                   aResolves>>

ActiveNext ==
    \/ ActiveCall
    \/ ActiveResolveOk
    \/ ActiveResolveFail
    \/ ActiveDialOk
    \/ ActiveDialFail

ActiveSpec == ActiveInit /\ [][ActiveNext]_vars

\* --------------------------------------------------------------- claims
\* listener.Accept() has returned a client's connection
ClientConnected == accConn # Nil

\* the channel is resolved: a connection or an error is recorded
Resolved == conn # Nil \/ err # Nil

\* C3: once a client has connected, every Read/Write that waits at the gate
\* or is issued afterwards eventually gets a nil error from the readiness
\* wait and is delegated to the accepted connection.
C3_BlockedCallsReachConn ==
    \A r \in Callers :
        (ClientConnected /\ pc[r] = "lock")
            ~> (ret[r].kind = "io" /\ ret[r].conn = accConn /\ waitRet[r] = Nil)

C3_Witness ==
    /\ waiter \in Callers
    /\ ret[waiter].kind = "io"
    /\ ret[waiter].conn = accConn
    /\ acc = "done"

\* C1: no Read or Write gets past the readiness wait while neither a
\* connection nor an error is recorded, and none calls a method of a nil
\* connection.
C1_NoPassWhileUnresolved ==
    \A r \in Callers :
        /\ pc[r] = "afterwait" => Resolved
        /\ pc[r] # "panicked"

\* C2: any two finished Read/Write calls were both delegated to the recorded
\* connection or both returned the recorded error.
C2_SameOutcome ==
    \A a, b \in outcomes :
        \/ a.kind = "io" /\ b.kind = "io" /\ a.conn = b.conn /\ a.conn = conn
        \/ a.kind = "err" /\ b.kind = "err" /\ a.err = b.err /\ a.err = err

\* C4: a Read/Write that finishes once the accept error is recorded returns
\* 0 bytes and that error.
C4_FailedAcceptReturnsError ==
    \A r \in Callers :
        (ret[r].kind \in {"io", "err", "panic"} /\ ret[r].failed)
            => (ret[r].kind = "err" /\ ret[r].n = 0 /\ ret[r].err = err)

\* C5: the error slot, once set, and the connection slot, once set, never
\* change again, whatever the accept goroutine and the callers do.
C5_SlotsWriteOnce ==
    [][/\ err # Nil => err' = err
       /\ conn # Nil => conn' = conn]_vars

C5_Witness ==
    /\ conn # Nil
    /\ acc = "done"
    /\ \E r \in Callers : ret[r].kind = "close" /\ ret[r].conn = conn
    /\ \E r \in Callers : ret[r].kind = "io"

\* C6: listener.Accept() is called at most once, and when the accept
\* goroutine has finished either a connection is recorded and no error, or an
\* error and no connection.
C6_ExactlyOneOutcome ==
    /\ acceptCalls <= 1
    /\ acc = "done" => \/ conn # Nil /\ err = Nil
                       \/ conn = Nil /\ err # Nil

C6_Witness ==
    /\ acc = "done"
    /\ acceptCalls = 1
    /\ err # Nil
    /\ \E r \in Callers : ret[r].kind = "err"

\* C7: a Close that finds no connection returns nil without waiting for the
\* lock and changes neither the listener, the accept goroutine, the lock, the
\* connection slot, the error slot nor the port.
C7_CloseWithoutConnIsNoOp ==
    /\ [](\A r \in Callers : (pc[r] = "close" /\ conn = Nil) => ENABLED CloseNone(r))
    /\ [][\A r \in Callers :
            (pc[r] = "close" /\ conn = Nil /\ pc'[r] # "close")
                => /\ pc'[r] = "idle"
                   /\ ret'[r].kind = "close"
                   /\ ret'[r].err = Nil
                   /\ UNCHANGED <<listener, acc, accConn, accErr, acceptCalls, lock,
                                  conn, err, sockPort, connOpen>>]_vars

C7_Witness ==
    \E r \in Callers :
        /\ ret[r].kind = "close"
        /\ ret[r].conn = Nil
        /\ ret[r].err = Nil
        /\ pc[r] = "idle"
        /\ acc = "accepting"
        /\ lock = ByAccept
        /\ listener = "open"

\* C8: the recorded connection is TLS-wrapped exactly when a TLS
\* configuration was passed to newPassiveSocket.
C8_TlsWhenConfigured ==
    conn # Nil => (connTls <=> tlsParam # Nil)

\* C9: once newPassiveSocket has returned the socket, Port() is the port the
\* listener is bound to, is not 0, and stays so.
C9_PortIsBoundPort ==
    ctorRet = "socket" =>
        /\ sockPort = boundPort
        /\ sockPort \in 1..MaxTCPPort

C9_Witness ==
    /\ ctorRet = "socket"
    /\ reqPort = 0
    /\ sockPort = osPort
    /\ acc = "done"
    /\ \E r \in Callers : ret[r].kind \in {"io", "err", "close"}

\* C10: when resolving or binding fails, newPassiveSocket returns the error
\* and the accept goroutine is never started; it exists only on the path on
\* which the socket is returned.
C10_NoAcceptTaskOnFailure ==
    /\ ctor = "failed" => (ctorRet = "error" /\ acc = "none" /\ acceptCalls = 0)
    /\ acc # "none" => ctor \in {"return", "done"}

C10_Witness ==
    /\ ctor = "failed"
    /\ reqPort = 21
    /\ listener = "none"
    /\ Len(log) = 1

\* C11: every error path has put one line with the session identifier in the
\* log: a failed construction, and also a failed background accept before its
\* error is recorded.
C11_EveryErrorPathLogged ==
    /\ ctor = "failed" =>
          \E i \in 1..Len(log) : log[i].sid = "sessionID" /\ log[i].msg \in {"resolve", "listen", "atoi"}
    /\ err # Nil =>
          \E i \in 1..Len(log) : log[i].sid = "sessionID" /\ log[i].msg = "accept"

\* C13: while listener.Accept() is running or its result is not yet stored,
\* the accept goroutine holds the lock, and it gives the lock up only after
\* the connection or the error is stored.
C13_GateHeldForWholeAccept ==
    /\ [](acc \in {"accepting", "accepted", "unlock"} => lock = ByAccept)
    /\ [][(lock = ByAccept /\ lock' # ByAccept)
            => (acc = "unlock" /\ acc' = "done" /\ Resolved /\ lock' = Unlocked)]_vars

C13_Witness ==
    /\ acc = "accepted"
    /\ lock = ByAccept
    /\ ~Resolved
    /\ \E r \in Callers : pc[r] = "lock"

\* C17: no Read, Write or Close is about to read socket.conn without the lock
\* while the accept goroutine can still write it.
C17_NoUnlockedSlotRead ==
    \A r \in Callers :
        (pc[r] \in {"close", "closing"} \/ (pc[r] = "afterwait" /\ waitRet[r] = Nil))
            => acc \in {"unlock", "done"}

\* C14: a caller never keeps the lock after waitForOpenSocket has returned,
\* and once the accept goroutine is done every caller at the lock gets it,
\* returns from the wait and has released it.
C14_NoReblockAfterResolve ==
    /\ [](\A r \in Callers : lock = ByCaller(r) => pc[r] = "check")
    /\ \A r \in Callers :
          (acc = "done" /\ pc[r] = "lock")
              ~> (pc[r] \notin {"lock", "check"} /\ lock # ByCaller(r))

C14_Witness ==
    /\ acc = "done"
    /\ lock = Unlocked
    /\ \A r \in Callers : pc[r] = "idle" /\ ret[r].kind = "err" /\ ret[r].err = err

\* C15: a Close that returns while the accept is pending leaves the accept
\* goroutine, the listener, the lock and the connection as they are; a
\* connection that arrives afterwards is recorded, is closed only by a Close
\* that found it, and Read/Write at the gate are delegated to it.
C15_CloseDoesNotAbortAccept ==
    /\ [][\A r \in Callers :
            (pc[r] = "close" /\ pc'[r] # "close" /\ acc \in {"spawned", "accepting"})
                => (acc' = acc /\ listener' = listener /\ lock' = lock
                    /\ connOpen' = connOpen /\ conn' = conn)]_vars
    /\ [][(connOpen /\ ~connOpen') => \E r \in Callers : pc[r] = "closing"]_vars
    /\ ClientConnected ~> (acc = "done" /\ conn = accConn)
    /\ \A r \in Callers :
          (ClientConnected /\ pc[r] = "lock") ~> (ret[r].kind = "io" /\ ret[r].conn = conn)

C15_Witness ==
    /\ conn # Nil
    /\ connOpen
    /\ \E r \in Callers : ret[r].kind = "close" /\ ret[r].conn = Nil /\ ret[r].err = Nil
    /\ \E r \in Callers : ret[r].kind = "io" /\ ret[r].conn = conn /\ ret[r].err = Nil

\* C16: once the accept goroutine has finished, the listening socket is
\* eventually no longer open.
C16_ListenerReleasedAfterAccept ==
    (acc = "done") ~> (listener # "open")

\* C12: newActiveSocket resolves and dials at most once; when either fails it
\* logs the error with the session identifier and returns the error and no
\* socket; it returns a socket only after a successful dial, with the
\* requested host and port.
C12_ActiveSingleAttempt ==
    /\ aResolves <= 1
    /\ aDials <= 1
    /\ aPc = "failed" =>
          /\ aRet = "error"
          /\ aConn = Nil
          /\ Len(aLog) = 2
          /\ aLog[2].sid = aSid
          /\ aLog[2].msg = (IF aDials = 0 THEN "resolve" ELSE "dial")
    /\ aRet = "socket" =>
          /\ aPc = "done"
          /\ aConn # Nil
          /\ aDials = 1
          /\ aSockHost = aHost
          /\ aSockPort = aPort
    /\ aRet = "error" => aPc = "failed"

C12_Witness ==
    /\ aPc = "failed"
    /\ aDials = 1
    /\ aResolves = 1
    /\ aRet = "error"

====
